---- MODULE Spec2Model ----
(***************************************************************************)
(* Batch pipeline of optimizador_seo2.py (OPTIMIZADOR SEO v4.5.2):         *)
(* App._process starts one background worker that takes every row of the   *)
(* work list through export_jpg_and_webp, the optional WEBP sibling, the   *)
(* ExifTool invocations, the optional "-meta" rename and the optional      *)
(* deletion of the source, and reports through q_log / q_prog.             *)
(*                                                                         *)
(* The file system is a function from the paths that exist to file         *)
(* contents.  A write                                                      *)
(* through Pillow's Image.save is two steps: the target is opened for      *)
(* writing (and truncated), then the encoder finishes or raises.           *)
(***************************************************************************)
EXTENDS Integers, Sequences, FiniteSets, TLC

\* ------------------------------------------------------------- bounds
MaxItems == 2       \* rows in the work list
MaxFaults == 1      \* environment failures (encoder, ExifTool, OS) per behaviour
MaxRuns == 2        \* batch runs started in the re-run specification
MaxRejected == 1    \* start requests turned down per behaviour

\* ------------------------------------------------------------- paths
\* A path is <<dir, stem, meta, ext>>; meta = 0 is "<stem>.<ext>", meta = 1 is
\* "<stem>-meta.<ext>", meta = i >= 2 is "<stem>-meta_<i>.<ext>".
Stems == {"a", "b"}
MaxCounter == MaxRuns * MaxItems + 2

MkPath(d, s, m, e) == <<d, s, m, e>>
dir_of(p) == p[1]
stem_of(p) == p[2]      \* Path.stem without the "-meta" part
meta_of(p) == p[3]
with_meta(p, m) == <<p[1], p[2], m, p[4]>>

SrcA == MkPath("in", "a", 0, "png")      \* a readable PNG outside the output folder
SrcB == MkPath("in", "b", 0, "png")      \* a PNG that cannot be decoded
SrcC == MkPath("out", "a", 0, "jpg")     \* a JPG that lies in the output folder
Sources == {SrcA, SrcB, SrcC}

\* Files of other kinds that the operator may point the program at.
SrcD == MkPath("in", "b", 0, "bmp")      \* a readable bitmap
SrcE == MkPath("in", "b", 0, "PNG")      \* a readable PNG, extension in capitals
ext_of(p) == p[4]
lower(e) == IF e = "PNG" THEN "png" ELSE IF e = "WEBP" THEN "webp" ELSE e

SUPPORTED_EXT == {"jpg", "jpeg", "png", "tif", "tiff", "webp"}

OutPaths ==
  {MkPath("out", s, m, "jpg") : s \in Stems, m \in 0..MaxCounter}
    \cup {MkPath("out", s, 0, "webp") : s \in Stems}

AllPaths == Sources \cup OutPaths

\* ------------------------------------------------------------- file contents
\* `size` is <<width, height>> in pixels; `fmt` is the container format an encoder of
\* the program gave the file ("" for files the program did not encode); `mode` is the
\* Pillow mode of the image and `px` the band values of one of its pixels.
NoFile ==
  [k |-> "none", i |-> 0, r |-> 0, size |-> <<0, 0>>, fmt |-> "",
   mode |-> "RGB", px |-> <<0, 0, 0>>]
\* opened for writing, not finished
Partial == [k |-> "partial", i |-> 0, r |-> 0, size |-> <<0, 0>>, fmt |-> "",
   mode |-> "RGB", px |-> <<0, 0, 0>>]
\* a complete image that was there before, of the given size
Sized(sz) == [k |-> "good", i |-> 0, r |-> 0, size |-> sz, fmt |-> "",
   mode |-> "RGB", px |-> <<0, 0, 0>>]
Good == Sized(<<1, 1>>)
\* not recognised as an image
Corrupt == [k |-> "corrupt", i |-> 0, r |-> 0, size |-> <<0, 0>>, fmt |-> "",
   mode |-> "RGB", px |-> <<0, 0, 0>>]
\* header readable, pixel data not
Trunc == [k |-> "trunc", i |-> 0, r |-> 0, size |-> <<1, 1>>, fmt |-> "",
   mode |-> "RGB", px |-> <<0, 0, 0>>]
\* image of the given size made by item i of run r
Out(i, r, sz) == [k |-> "out", i |-> i, r |-> r, size |-> sz, fmt |-> "",
   mode |-> "RGB", px |-> <<0, 0, 0>>]
\* Image.save(path, format=fmt): what the finished file holds
encoded(img, fmt) == [img EXCEPT !.fmt = fmt]

Complete(c) == c.k \in {"good", "out"}

\* ------------------------------------------------------------- image modes
\* Band values run from 0 to MaxVal (255 in Pillow).
MaxVal == 2
Modes == {"RGB", "RGBA", "L", "LA", "P", "CMYK"}

\* img.getbands()
getbands(mode) ==
  CASE mode = "RGB" -> <<"R", "G", "B">>
    [] mode = "RGBA" -> <<"R", "G", "B", "A">>
    [] mode = "L" -> <<"L">>
    [] mode = "LA" -> <<"L", "A">>
    [] mode = "P" -> <<"P">>
    [] mode = "CMYK" -> <<"C", "M", "Y", "K">>

has_alpha(mode) == \E b \in DOMAIN getbands(mode) : getbands(mode)[b] = "A"

\* The palette of the modelled "P" images: index v stands for this colour.
Palette(v) == <<v, MaxVal - v, v>>

\* The pixel of img.convert("RGB"): grey is copied to the three bands, a palette
\* index is looked up, alpha is dropped, CMYK is (MaxVal - K) reduced by each ink.
rgb_px(mode, px) ==
  CASE mode = "RGB" -> px
    [] mode = "RGBA" -> <<px[1], px[2], px[3]>>
    [] mode \in {"L", "LA"} -> <<px[1], px[1], px[1]>>
    [] mode = "P" -> Palette(px[1])
    [] mode = "CMYK" ->
         LET nk == MaxVal - px[4]
         IN <<nk - (px[1] * nk) \div MaxVal, nk - (px[2] * nk) \div MaxVal,
              nk - (px[3] * nk) \div MaxVal>>

\* img.convert("RGB")
convert_rgb(img) == [img EXCEPT !.mode = "RGB", !.px = rgb_px(img.mode, img.px)]

\* bg.paste(img, mask=img.split()[-1]) on a white bg: each band is the image's where
\* the mask is MaxVal, white where it is 0, blended in between.
pasted_on_white(img) ==
  LET a == img.px[Len(img.px)]
      c == rgb_px(img.mode, img.px)
      mix(v) == (v * a + MaxVal * (MaxVal - a)) \div MaxVal
  IN [img EXCEPT !.mode = "RGB", !.px = <<mix(c[1]), mix(c[2]), mix(c[3])>>]

\* force_white_background_if_transparent (lines 91-97)
force_white_background_if_transparent(img) ==
  IF has_alpha(img.mode) THEN pasted_on_white(img)
  ELSE IF img.mode # "RGB" THEN convert_rgb(img)
  ELSE img

\* to_srgb (lines 69-89) on an image without ICC profile: CMYK becomes RGB; when the
\* colour management raised, any mode but RGB and RGBA becomes RGB.
to_srgb(img) == IF img.mode = "CMYK" THEN convert_rgb(img) ELSE img

\* ------------------------------------------------------------- text fields
\* Values of a text field, and str.strip() on them.
Titles == {"", " ", "t", " t ", "d"}
strip(x) == IF x = " " THEN "" ELSE IF x = " t " THEN "t" ELSE x

\* ------------------------------------------------------------- options
OptNames == {"overwrite", "keep_original", "make_webp", "clean_ai", "set_dpi96",
             "rename_after_meta"}
AllOpts == [OptNames -> BOOLEAN]

\* ------------------------------------------------------------- resize
MaxDim == 4
Sizes == {<<x, y>> : x \in 1..MaxDim, y \in 1..MaxDim}
NoResize == [max_w |-> 0, max_h |-> 0]
\* The options "Convertir PNG->JPG" and "Fondo blanco si hay transparencia" as the
\* window starts with them (lines 299-300)
ConvertPng == [convert_png |-> TRUE, force_white |-> TRUE]
\* What _validate_before_process looks at besides the rows: the ExifTool field
\* ("" blank, "absent" a path that does not exist, "present"), whether the output
\* folder can be created, and MISSING_PIL.
ExifPaths == {"", "absent", "present"}
Preflight == [exiftool |-> "present", outdir_usable |-> TRUE, missing_pil |-> FALSE]

\* int(x * scale) for scale = n / d computed in floating point: the integer part of
\* x * n / d, or one less when x * n / d is an integer that the rounding of n / d
\* may miss from below.
scaled(x, n, d) ==
  {(x * n) \div d} \cup (IF (x * n) % d = 0 /\ n < d THEN {(x * n) \div d - 1} ELSE {})

max1(x) == IF x >= 1 THEN x ELSE 1

\* Mutant: the tests "w > max_w" and "h > max_h" are left out, so a bound above the
\* size scales the image up.
resize_upscales(size, max_w, max_h) ==
  LET x == size[1]
      y == size[2]
      byw == max_w > 0
      byh == max_h > 0
      n == IF byw /\ (~byh \/ max_w * y <= max_h * x) THEN max_w ELSE max_h
      d == IF byw /\ (~byh \/ max_w * y <= max_h * x) THEN x ELSE y
  IN IF ~byw /\ ~byh THEN {size}
     ELSE {<<max1((x * n) \div d), max1((y * n) \div d)>>}

\* resize_if_needed (lines 99-110): the sizes it may return.  scale is the least of
\* 1.0, max_w / w (when max_w > 0 and w > max_w) and max_h / h (when max_h > 0 and
\* h > max_h); n / d is that least factor when it is below 1.
resize_if_needed(size, max_w, max_h) ==
  LET x == size[1]
      y == size[2]
      byw == max_w > 0 /\ x > max_w
      byh == max_h > 0 /\ y > max_h
      n == IF byw /\ (~byh \/ max_w * y <= max_h * x) THEN max_w ELSE max_h
      d == IF byw /\ (~byh \/ max_w * y <= max_h * x) THEN x ELSE y
  IN IF ~byw /\ ~byh THEN {size}
     ELSE {<<max1(a), max1(b)>> : a \in scaled(x, n, d), b \in scaled(y, n, d)}

\* ------------------------------------------------------------- GPS fields
\* What a GPS field holds: nothing but white space ("blank"), text that float()
\* refuses ("text"), or a number v ("num").
MaxCoord == 1
GpsInputs ==
  {[s |-> "blank", v |-> 0], [s |-> "text", v |-> 0]}
    \cup {[s |-> "num", v |-> n] : n \in -MaxCoord..MaxCoord}
Blank == [s |-> "blank", v |-> 0]
BlankGps == [gps_lat |-> Blank, gps_lon |-> Blank, gps_alt |-> Blank]

abs(v) == IF v >= 0 THEN v ELSE -v

\* Mutant: the value is written with its sign.
gps_ref_val_signed(val, lat) ==
  IF val.s # "num" THEN [ref |-> "", val |-> 0]
  ELSE [ref |-> IF lat THEN (IF val.v >= 0 THEN "N" ELSE "S")
                       ELSE (IF val.v >= 0 THEN "E" ELSE "W"),
        val |-> val.v]

\* write_metadata_full.gps_ref_val: (None, None) for a blank or non-numeric field,
\* else the reference letter and the absolute value.
gps_ref_val(val, lat) ==
  IF val.s # "num" THEN [ref |-> "", val |-> 0]
  ELSE [ref |-> IF lat THEN (IF val.v >= 0 THEN "N" ELSE "S")
                       ELSE (IF val.v >= 0 THEN "E" ELSE "W"),
        val |-> abs(val.v)]

Tag(name, ref, num) == [tag |-> name, ref |-> ref, num |-> num]

\* The GPS arguments write_metadata_full passes to ExifTool (lines 174-184).
gps_args(gps_lat, gps_lon, gps_alt) ==
  LET la == gps_ref_val(gps_lat, TRUE)
      lo == gps_ref_val(gps_lon, FALSE)
  IN IF la.ref # "" /\ lo.ref # ""
     THEN <<Tag("GPSLatitudeRef", la.ref, 0), Tag("GPSLatitude", "", la.val),
            Tag("GPSLongitudeRef", lo.ref, 0), Tag("GPSLongitude", "", lo.val)>>
          \o (IF gps_alt.s = "num" THEN <<Tag("GPSAltitude", "", gps_alt.v)>> ELSE <<>>)
     ELSE <<>>

VARIABLES
  fs,               \* existing path -> content
  outdir,           \* the output folder exists
  tree,             \* the rows of the work list, in order (iid = source path)
  row_data,         \* iid -> [final_name, title]: the row's own fields
  var_title,        \* the default title field (self.var_title)
  opts,             \* the option check boxes (var_overwrite, ...)
  items, total,     \* the run's snapshot of the rows (closure of _process)
  job,              \* the run's snapshot of the options
  threads,          \* runs whose worker thread is alive
  runs,             \* runs started so far
  max_runs,         \* runs the operator requests in this behaviour
  seo,              \* the window of optimizador_seo.py: rows, options, process_all
  rejected,         \* start requests that were turned down
  w,                \* the worker's locals and position
  q_log, q_prog,    \* queues from the worker to the front end
  emitted,          \* every log message the worker has put, all runs
  progress,         \* the progress bar
  txt,              \* the log widget
  poll_pc,          \* position of _poll_queues
  stop_processing,  \* threading.Event
  faults_left,      \* environment failures that may still happen
  start_fs          \* the file system as it was when the current run started

vars == <<fs, outdir, tree, row_data, var_title, opts, items, total, job, threads, runs, max_runs, seo, rejected, w,
          q_log, q_prog, emitted, progress, txt, poll_pc, stop_processing, faults_left,
          start_fs>>

\* The file system: content of a path, writing a file, removing a file.
at(f, p) == IF p \in DOMAIN f THEN f[p] ELSE NoFile
put(f, p, c) == [q \in DOMAIN f \cup {p} |-> IF q = p THEN c ELSE f[q]]
remove(f, p) == [q \in DOMAIN f \ {p} |-> f[q]]

exists(p) == p \in DOMAIN fs

\* ------------------------------------------------------------- messages
\* A log line put on q_log: "start" (line 887), "diag" (a "- ... avisó/falló"
\* line), "ok" (line 978), "err" (line 981), "totals" (line 985).
\* `why` is the text the line carries: the cause of an error or a diagnostic, the
\* final name in the success line.
Msg(t, r, i, why, ok, fail) ==
  [t |-> t, r |-> r, i |-> i, why |-> why, ok |-> ok, fail |-> fail]

NoPath == MkPath("", "", 0, "")

IdleWorker ==
  [pc |-> "idle", idx |-> 0, ok |-> 0, fail |-> 0, src |-> NoPath, final_name |-> "",
   jpg_path |-> NoPath, webp_path |-> NoPath, img |-> NoFile, created |-> FALSE,
   why |-> "", calls |-> <<>>, title |-> ""]

\* self.q_log.put(...)
put_log(m) ==
  /\ q_log' = Append(q_log, m)
  /\ emitted' = Append(emitted, m)

\* An environment failure may still be injected.
MayFail == faults_left > 0

\* ------------------------------------------------------------- pure helpers
\* App._unique_path: the path itself when free, else the first "<stem>_<i>" from
\* i = 2 that is free (path.stem is "<stem>-meta", so the names are meta = 2, 3, ...).
RECURSIVE unique_from(_, _, _)
unique_from(f, path, i) ==
  IF i >= MaxCounter \/ with_meta(path, i) \notin DOMAIN f
  THEN with_meta(path, i)
  ELSE unique_from(f, path, i + 1)

\* Mutant: the path is used as it is.
unique_path_same(f, path) == path

unique_path(f, path) ==
  IF path \notin DOMAIN f THEN path ELSE unique_from(f, path, 2)

\* App._merge_defaults, the final name: the row's final_name, stripped, or "".
merge_defaults_final_name(iid) ==
  IF iid \in DOMAIN row_data THEN row_data[iid].final_name ELSE ""

\* Mutant: the default wins over the row's own value.
merge_default_first(own, default) ==
  IF strip(default) # "" THEN strip(default) ELSE strip(own)

\* App._merge_defaults, one text field: d.get(k, "").strip() or self.var_k.get().strip()
merge_field(own, default) ==
  IF strip(own) # "" THEN strip(own) ELSE strip(default)

\* App._merge_defaults, the title of row iid (row_data.get(iid, {}), the field read
\* when the worker takes the item).
merge_defaults_title(iid) ==
  merge_field(IF iid \in DOMAIN row_data THEN row_data[iid].title ELSE "", var_title)

\* Mutant: the collision test is left out.
collides_never(f, overwrite, jpg_path) == FALSE

\* The collision test of export_jpg_and_webp (line 215).
collides(f, overwrite, jpg_path) ==
  (~overwrite) /\ jpg_path \in DOMAIN f

\* Mutant: a folder that cannot be created is not noticed.
validate_ignores_outdir ==
  IF tree = <<>> THEN "Agrega imagenes primero."
  ELSE IF opts["exiftool"] = "" THEN "Ruta a ExifTool vacia."
  ELSE IF opts["exiftool"] = "absent" THEN "ExifTool no existe en la ruta indicada."
  ELSE IF opts["missing_pil"] THEN "Pillow no esta instalado."
  ELSE "ok"

\* App._validate_before_process: the message, or "ok" (and then the output folder
\* has been created, line 838).
validate_before_process ==
  IF tree = <<>> THEN "Agrega imagenes primero."
  ELSE IF opts["exiftool"] = "" THEN "Ruta a ExifTool vacia."
  ELSE IF opts["exiftool"] = "absent" THEN "ExifTool no existe en la ruta indicada."
  ELSE IF ~opts["outdir_usable"] THEN "No se puede usar la carpeta de salida"
  ELSE IF opts["missing_pil"] THEN "Pillow no esta instalado."
  ELSE "ok"

\* The validation got past outdir.mkdir (line 838).
mkdir_done == validate_before_process \in {"ok", "Pillow no esta instalado."}

\* worker_thread and worker_thread.is_alive()
is_alive == threads # {}

\* ------------------------------------------------------------- App._process
\* Mutant: the test of the running worker is left out.
may_start_unguarded == validate_before_process = "ok"

\* The guard that lets a request start a run (lines 847-852).
may_start == validate_before_process = "ok" /\ ~is_alive

\* _process runs on the Tk main thread like _poll_queues, so it does not run while
\* the poller is in its second loop (a step of the first loop commutes with it).
process ==
  /\ runs < max_runs
  /\ poll_pc = "log"
  /\ may_start
  /\ items' = tree
  /\ total' = Len(tree)
  /\ progress' = [maximum |-> Len(tree), stepped |-> 0]
  /\ stop_processing' = FALSE
  /\ job' = opts
  /\ runs' = runs + 1
  /\ threads' = threads \cup {runs + 1}
  /\ w' = [IdleWorker EXCEPT !.pc = "loop"]
  /\ start_fs' = fs
  /\ outdir' = TRUE
  /\ UNCHANGED <<fs, tree, row_data, var_title, opts, max_runs, seo, rejected, q_log, q_prog, emitted, txt,
                 poll_pc, faults_left>>

\* A request that is turned down: validation failed, or a worker is alive.
process_rejected ==
  /\ rejected < MaxRejected
  /\ poll_pc = "log"
  /\ ~may_start
  /\ rejected' = rejected + 1
  /\ outdir' = (outdir \/ mkdir_done)
  /\ UNCHANGED <<fs, tree, row_data, var_title, opts, items, total, job, threads, runs, max_runs, seo, w, q_log,
                 q_prog, emitted, progress, txt, poll_pc, stop_processing, faults_left,
                 start_fs>>

\* ------------------------------------------------------------- the worker
WorkerFrame == UNCHANGED <<outdir, tree, row_data, var_title, opts, items, total, job, runs, max_runs, seo, rejected,
                           progress, txt, poll_pc, stop_processing, start_fs>>

\* Mutant: the loop never looks at the cancel flag.
w_loop_ignores_stop ==
  /\ w.pc = "loop"
  /\ w' = IF w.idx < Len(items)
          THEN [w EXCEPT !.pc = "begin", !.idx = w.idx + 1]
          ELSE [w EXCEPT !.pc = "totals"]
  /\ UNCHANGED <<fs, threads, q_log, q_prog, emitted, faults_left>>
  /\ UNCHANGED <<outdir, tree, row_data, var_title, opts, items, total, job, runs, max_runs, seo, rejected,
                 progress, txt, poll_pc, stop_processing, start_fs>>

\* for idx, iid in enumerate(items, 1): if self._stop_processing.is_set(): break
w_loop ==
  /\ w.pc = "loop"
  /\ w' = IF w.idx < Len(items) /\ ~stop_processing
          THEN [w EXCEPT !.pc = "begin", !.idx = w.idx + 1]
          ELSE [w EXCEPT !.pc = "totals"]
  /\ UNCHANGED <<fs, threads, q_log, q_prog, emitted, faults_left>>
  /\ WorkerFrame

\* src = Path(iid); meta = self._merge_defaults(iid); final_name = ... ; log line
w_begin ==
  /\ w.pc = "begin"
  /\ LET iid == items[w.idx]
         fn == IF merge_defaults_final_name(iid) # "" THEN merge_defaults_final_name(iid)
               ELSE stem_of(iid)
     IN /\ w' = [w EXCEPT !.pc = "export_check", !.src = iid, !.final_name = fn,
                          !.jpg_path = NoPath, !.webp_path = NoPath, !.img = NoFile,
                          !.created = FALSE, !.why = "", !.calls = <<>>,
                          !.title = merge_defaults_title(iid)]
        /\ put_log(Msg("start", runs, w.idx, "", 0, 0))
  /\ UNCHANGED <<fs, threads, q_prog, faults_left>>
  /\ WorkerFrame

\* export_jpg_and_webp, lines 209-216: mkdir of the (existing) folder, the two
\* target paths, the collision test on the JPG path.
w_export_check ==
  /\ w.pc = "export_check"
  /\ LET jpg == MkPath("out", w.final_name, 0, "jpg")
         webp == MkPath("out", w.final_name, 0, "webp")
     IN w' = IF collides(fs, job["overwrite"], jpg)
             THEN [w EXCEPT !.pc = "item_fail", !.why = "collision"]
             ELSE [w EXCEPT !.pc = "export_open", !.jpg_path = jpg, !.webp_path = webp]
  /\ UNCHANGED <<fs, threads, q_log, q_prog, emitted, faults_left>>
  /\ WorkerFrame

\* Image.open(in_path), lines 221-224: a missing file and an unrecognised file raise.
\* A half-written file is either not recognised or fails later, when it is loaded.
w_export_open ==
  /\ w.pc = "export_open"
  /\ \/ /\ at(fs, w.src).k = "none"
        /\ w' = [w EXCEPT !.pc = "item_fail", !.why = "nofile"]
     \/ /\ at(fs, w.src).k \in {"corrupt", "partial"}
        /\ w' = [w EXCEPT !.pc = "item_fail", !.why = "decode"]
     \/ /\ at(fs, w.src).k \in {"good", "out", "trunc", "partial"}
        /\ w' = [w EXCEPT !.pc = "export_flatten", !.img = at(fs, w.src)]
  /\ UNCHANGED <<fs, threads, q_log, q_prog, emitted, faults_left>>
  /\ WorkerFrame

\* The test of line 226
flattens(src, force_white) ==
  lower(ext_of(src)) \in {"png", "tif", "tiff", "webp"} /\ force_white

\* Lines 225-227: the white background, when the source is a PNG, TIFF or WEBP and
\* the option is on.  The paste and the conversion read the pixel data, which raises
\* when they cannot be decoded; the exception drops the image.
w_export_flatten ==
  /\ w.pc = "export_flatten"
  /\ w' = IF ~flattens(w.src, job["force_white"])
          THEN [w EXCEPT !.pc = "export_transform"]
          ELSE IF ~Complete(w.img) /\ (has_alpha(w.img.mode) \/ w.img.mode # "RGB")
          THEN [w EXCEPT !.pc = "item_fail", !.why = "decode", !.img = NoFile]
          ELSE [w EXCEPT !.pc = "export_transform",
                         !.img = force_white_background_if_transparent(w.img)]
  /\ UNCHANGED <<fs, threads, q_log, q_prog, emitted, faults_left>>
  /\ WorkerFrame

\* Mutant: the target is opened for writing before the pixel data are loaded.
w_export_transform_late ==
  /\ w.pc = "export_transform"
  /\ IF Complete(at(fs, w.src))
     THEN /\ \E sz \in resize_if_needed(w.img.size, job["max_w"], job["max_h"]) :
               w' = [w EXCEPT !.pc = "save_jpg",
                              !.img = [Out(w.idx, runs, sz) EXCEPT
                                         !.px = convert_rgb(to_srgb(w.img)).px]]
          /\ UNCHANGED fs
     ELSE /\ w' = [w EXCEPT !.pc = "item_fail", !.why = "decode", !.img = NoFile]
          /\ fs' = put(fs, w.jpg_path, Partial)
  /\ UNCHANGED <<threads, q_log, q_prog, emitted, faults_left>>
  /\ UNCHANGED <<outdir, tree, row_data, var_title, opts, items, total, job, runs, max_runs, seo,
                 rejected, progress, txt, poll_pc, stop_processing, start_fs>>

\* Lines 227-233: the pixel data are loaded by the first conversion (img.convert("RGB")
\* at the latest), before the target is opened for writing; line 229 resizes the
\* image to the job's max_w and max_h.
w_export_transform ==
  /\ w.pc = "export_transform"
  /\ IF Complete(at(fs, w.src))
     THEN \E sz \in resize_if_needed(w.img.size, job["max_w"], job["max_h"]) :
            w' = [w EXCEPT !.pc = "save_jpg",
                           !.img = [Out(w.idx, runs, sz) EXCEPT
                                      !.px = convert_rgb(to_srgb(w.img)).px]]
     ELSE w' = [w EXCEPT !.pc = "item_fail", !.why = "decode", !.img = NoFile]
  /\ UNCHANGED <<fs, threads, q_log, q_prog, emitted, faults_left>>
  /\ WorkerFrame

\* How Image.save begins on a target (line 234, line 903): the file is opened "w+b".
save_open(f, path) == put(f, path, Partial)

\* img_jpg.save(jpg_path, ...), line 234: the target is opened for writing.
w_save_jpg ==
  /\ w.pc = "save_jpg"
  /\ fs' = save_open(fs, w.jpg_path)
  /\ w' = [w EXCEPT !.pc = "save_jpg_end", !.created = ~exists(w.jpg_path)]
  /\ UNCHANGED <<threads, q_log, q_prog, emitted, faults_left>>
  /\ WorkerFrame

\* The files a failed Image.save may leave: the half-written target, or nothing when
\* the call created the target and the library removes it again.
after_failed_save(f, path, created) ==
  {f} \cup (IF created THEN {remove(f, path)} ELSE {})

\* The encoder finishes, or raises (the exception leaves export_jpg_and_webp and is
\* caught at line 979).
w_save_jpg_end ==
  /\ w.pc = "save_jpg_end"
  /\ \/ /\ fs' = put(fs, w.jpg_path, encoded(w.img, "JPEG"))
        /\ w' = [w EXCEPT !.pc = "webp"]
        /\ UNCHANGED faults_left
     \/ /\ MayFail
        /\ faults_left' = faults_left - 1
        /\ fs' \in after_failed_save(fs, w.jpg_path, w.created)
        /\ w' = [w EXCEPT !.pc = "item_fail", !.why = "encode"]
  /\ UNCHANGED <<threads, q_log, q_prog, emitted>>
  /\ WorkerFrame

\* Lines 898-905: with make_webp the JPG just written is opened and saved as WEBP
\* straight to webp_path.
w_webp ==
  /\ w.pc = "webp"
  /\ IF job["make_webp"]
     THEN /\ fs' = save_open(fs, w.webp_path)
          /\ w' = [w EXCEPT !.pc = "webp_end", !.created = ~exists(w.webp_path)]
     ELSE /\ w' = [w EXCEPT !.pc = "clean_jpg"]
          /\ UNCHANGED fs
  /\ UNCHANGED <<threads, q_log, q_prog, emitted, faults_left>>
  /\ WorkerFrame

\* The WEBP encoder finishes, or raises: "except Exception" (line 904) logs
\* "WEBP falló" and the item goes on.
w_webp_end ==
  /\ w.pc = "webp_end"
  /\ \/ /\ fs' = put(fs, w.webp_path, encoded(at(fs, w.jpg_path), "WEBP"))
        /\ UNCHANGED <<faults_left, q_log, emitted>>
     \/ /\ MayFail
        /\ faults_left' = faults_left - 1
        /\ fs' \in after_failed_save(fs, w.webp_path, w.created)
        /\ put_log(Msg("diag", runs, w.idx, "webp", 0, 0))
  /\ w' = [w EXCEPT !.pc = "clean_jpg"]
  /\ UNCHANGED <<threads, q_prog>>
  /\ WorkerFrame

\* run_exiftool: the exit codes an invocation may return; an exception of
\* subprocess.run is turned into code 1 (lines 118-119).
exit_codes == {0} \cup (IF MayFail THEN {1} ELSE {})

\* The position of the worker after an invocation that returned `code`: a non-zero
\* code is logged and nothing else, so it is the next step in both cases.
after_tool(code, next) == next

\* One ExifTool step of the worker at position `pc`: when `applies`, the tool is run
\* on a file (`ext` tells which; `args` are the GPS arguments of write_metadata_full)
\* and a non-zero exit code is logged; then `next`.
tool_step(pc, op, ext, applies, next) ==
  /\ w.pc = pc
  /\ IF applies
     THEN \E code \in exit_codes :
            /\ w' = [w EXCEPT !.pc = after_tool(code, next),
                              !.calls = Append(w.calls,
                                 [op |-> op, ext |-> ext, code |-> code,
                                  args |-> IF op = "meta"
                                           THEN gps_args(job["gps_lat"], job["gps_lon"],
                                                         job["gps_alt"])
                                           ELSE <<>>])]
            /\ faults_left' = IF code = 0 THEN faults_left ELSE faults_left - 1
            /\ IF code # 0
               THEN put_log(Msg("diag", runs, w.idx, op, 0, 0))
               ELSE UNCHANGED <<q_log, emitted>>
     ELSE /\ w' = [w EXCEPT !.pc = next]
          /\ UNCHANGED <<faults_left, q_log, emitted>>
  /\ UNCHANGED <<fs, threads, q_prog>>
  /\ WorkerFrame

\* webp_real = job["outdir"] / f"{final_name}.webp"; webp_real.exists()
webp_real == MkPath("out", w.final_name, 0, "webp")
on_webp == job["make_webp"] /\ exists(webp_real)

\* Lines 908-917
w_clean_jpg == tool_step("clean_jpg", "clean", "jpg", job["clean_ai"], "clean_webp")
w_clean_webp ==
  tool_step("clean_webp", "clean", "webp", job["clean_ai"] /\ on_webp, "dpi_jpg")
\* Lines 920-929
w_dpi_jpg == tool_step("dpi_jpg", "dpi", "jpg", job["set_dpi96"], "dpi_webp")
w_dpi_webp ==
  tool_step("dpi_webp", "dpi", "webp", job["set_dpi96"] /\ on_webp, "meta_jpg")
\* Lines 932-954
w_meta_jpg == tool_step("meta_jpg", "meta", "jpg", TRUE, "meta_webp")
w_meta_webp == tool_step("meta_webp", "meta", "webp", on_webp, "rename")

\* Lines 957-968: the "-meta" rename.  The target is made unique first; the test of
\* line 961 and the unlink of line 964 act on the target as it then is.
rename_target == unique_path(fs, MkPath("out", w.final_name, 1, "jpg"))

\* shutil.move(jpg_path, target) after the optional target.unlink()
moved(f, from, to) == remove(put(f, to, at(f, from)), from)

\* Mutant: a failed move ends the item as an error.
w_rename_fatal ==
  /\ w.pc = "rename"
  /\ IF ~job["rename_after_meta"]
     THEN /\ w' = [w EXCEPT !.pc = "unlink"]
          /\ UNCHANGED <<fs, faults_left, q_log, emitted>>
     ELSE IF exists(rename_target) /\ ~job["overwrite"]
     THEN /\ put_log(Msg("diag", runs, w.idx, "rename_exists", 0, 0))
          /\ w' = [w EXCEPT !.pc = "unlink"]
          /\ UNCHANGED <<fs, faults_left>>
     ELSE \/ /\ fs' = moved(fs, w.jpg_path, rename_target)
             /\ w' = [w EXCEPT !.pc = "unlink", !.jpg_path = rename_target]
             /\ UNCHANGED <<faults_left, q_log, emitted>>
          \/ /\ MayFail
             /\ faults_left' = faults_left - 1
             /\ put_log(Msg("diag", runs, w.idx, "rename", 0, 0))
             /\ w' = [w EXCEPT !.pc = "item_fail", !.why = "rename"]
             /\ UNCHANGED fs
  /\ UNCHANGED <<threads, q_prog>>
  /\ UNCHANGED <<outdir, tree, row_data, var_title, opts, items, total, job, runs, max_runs, seo,
                 rejected, progress, txt, poll_pc, stop_processing, start_fs>>

w_rename ==
  /\ w.pc = "rename"
  /\ IF ~job["rename_after_meta"]
     THEN /\ w' = [w EXCEPT !.pc = "unlink"]
          /\ UNCHANGED <<fs, faults_left, q_log, emitted>>
     ELSE IF exists(rename_target) /\ ~job["overwrite"]
     THEN /\ put_log(Msg("diag", runs, w.idx, "rename_exists", 0, 0))
          /\ w' = [w EXCEPT !.pc = "unlink"]
          /\ UNCHANGED <<fs, faults_left>>
     ELSE \/ /\ fs' = moved(fs, w.jpg_path, rename_target)
             /\ w' = [w EXCEPT !.pc = "unlink", !.jpg_path = rename_target]
             /\ UNCHANGED <<faults_left, q_log, emitted>>
          \/ /\ MayFail
             /\ faults_left' = faults_left - 1
             /\ put_log(Msg("diag", runs, w.idx, "rename", 0, 0))
             /\ w' = [w EXCEPT !.pc = "unlink"]
             /\ UNCHANGED fs
  /\ UNCHANGED <<threads, q_prog>>
  /\ WorkerFrame

\* Mutant: the source is deleted whatever keep_original says.
deletes_source_always(keep_original, f, src) == src \in DOMAIN f

\* Lines 971-975: if not keep_original: if src.exists(): src.unlink()
deletes_source(keep_original, f, src) == (~keep_original) /\ src \in DOMAIN f

w_unlink ==
  /\ w.pc = "unlink"
  /\ IF deletes_source(job["keep_original"], fs, w.src)
     THEN \/ /\ fs' = remove(fs, w.src)
             /\ UNCHANGED <<faults_left, q_log, emitted>>
          \/ /\ MayFail
             /\ faults_left' = faults_left - 1
             /\ put_log(Msg("diag", runs, w.idx, "unlink", 0, 0))
             /\ UNCHANGED fs
     ELSE UNCHANGED <<fs, faults_left, q_log, emitted>>
  /\ w' = [w EXCEPT !.pc = "item_ok"]
  /\ UNCHANGED <<threads, q_prog>>
  /\ WorkerFrame

\* Mutant: the success line is put, and the error line after it.
w_item_ok_twice ==
  /\ w.pc = "item_ok"
  /\ w' = [w EXCEPT !.pc = "item_fail", !.ok = w.ok + 1]
  /\ put_log(Msg("ok", runs, w.idx, w.final_name, 0, 0))
  /\ UNCHANGED <<fs, threads, q_prog, faults_left>>
  /\ WorkerFrame

\* Lines 977-978: ok += 1 and the success line, which names "<final_name>.jpg"
w_item_ok ==
  /\ w.pc = "item_ok"
  /\ w' = [w EXCEPT !.pc = "step", !.ok = w.ok + 1]
  /\ put_log(Msg("ok", runs, w.idx, w.final_name, 0, 0))
  /\ UNCHANGED <<fs, threads, q_prog, faults_left>>
  /\ WorkerFrame

\* Mutant: a failed item ends the loop.
w_item_fail_breaks ==
  /\ w.pc = "item_fail"
  /\ w' = [w EXCEPT !.pc = "totals", !.fail = w.fail + 1]
  /\ put_log(Msg("err", runs, w.idx, w.why, 0, 0))
  /\ UNCHANGED <<fs, threads, q_prog, faults_left>>
  /\ WorkerFrame

\* Lines 979-981: except Exception: fail += 1 and the error line
w_item_fail ==
  /\ w.pc = "item_fail"
  /\ w' = [w EXCEPT !.pc = "step", !.fail = w.fail + 1]
  /\ put_log(Msg("err", runs, w.idx, w.why, 0, 0))
  /\ UNCHANGED <<fs, threads, q_prog, faults_left>>
  /\ WorkerFrame

\* Line 983: self.q_prog.put(("step", 1))
w_step ==
  /\ w.pc = "step"
  /\ q_prog' = Append(q_prog, "step")
  /\ w' = [w EXCEPT !.pc = "loop"]
  /\ UNCHANGED <<fs, threads, q_log, emitted, faults_left>>
  /\ WorkerFrame

\* Line 985: the totals line
w_totals ==
  /\ w.pc = "totals"
  /\ put_log(Msg("totals", runs, 0, "", w.ok, w.fail))
  /\ w' = [w EXCEPT !.pc = "done_msg"]
  /\ UNCHANGED <<fs, threads, q_prog, faults_left>>
  /\ WorkerFrame

\* Line 986, and the thread ends
w_done ==
  /\ w.pc = "done_msg"
  /\ q_prog' = Append(q_prog, "done")
  /\ w' = [w EXCEPT !.pc = "finished"]
  /\ threads' = threads \ {runs}
  /\ UNCHANGED <<fs, q_log, emitted, faults_left>>
  /\ WorkerFrame

worker ==
  \/ w_loop \/ w_begin \/ w_export_check \/ w_export_open \/ w_export_flatten
  \/ w_export_transform
  \/ w_save_jpg \/ w_save_jpg_end \/ w_webp \/ w_webp_end
  \/ w_clean_jpg \/ w_clean_webp \/ w_dpi_jpg \/ w_dpi_webp \/ w_meta_jpg \/ w_meta_webp
  \/ w_rename \/ w_unlink \/ w_item_ok \/ w_item_fail \/ w_step \/ w_totals \/ w_done

\* ------------------------------------------------------------- App._poll_queues
\* The first loop, one get_nowait at a time: a queued log line goes to the log
\* widget (self._log); queue.Empty ends the loop.
poll_log ==
  /\ poll_pc = "log"
  /\ IF q_log # <<>>
     THEN /\ txt' = Append(txt, Head(q_log))
          /\ q_log' = Tail(q_log)
          /\ poll_pc' = "log"
     ELSE /\ poll_pc' = "prog"
          /\ UNCHANGED <<txt, q_log>>
  /\ UNCHANGED <<fs, outdir, tree, row_data, var_title, opts, items, total, job, threads, runs,
                 max_runs, seo, rejected, w, q_prog, emitted, progress, stop_processing,
                 faults_left, start_fs>>

\* Mutant: the line taken from the queue when a second one is waiting is not shown.
poll_prog_skips ==
  /\ poll_pc = "prog"
  /\ IF q_prog # <<>>
     THEN /\ progress' = [progress EXCEPT !.stepped =
                             IF Head(q_prog) = "step" /\ Len(q_prog) = 1
                             THEN progress.stepped + 1 ELSE progress.stepped]
          /\ q_prog' = Tail(q_prog)
          /\ poll_pc' = "prog"
     ELSE /\ poll_pc' = "log"
          /\ UNCHANGED <<progress, q_prog>>
  /\ UNCHANGED <<fs, outdir, tree, row_data, var_title, opts, items, total, job, threads, runs,
                 max_runs, seo, rejected, w, q_log, emitted, txt, stop_processing, faults_left,
                 start_fs>>

\* The second loop, one get_nowait at a time: "step" advances the bar by one, "done"
\* does nothing; queue.Empty ends the loop and the poller is scheduled again
\* (root.after).
poll_prog ==
  /\ poll_pc = "prog"
  /\ IF q_prog # <<>>
     THEN /\ progress' = [progress EXCEPT !.stepped =
                             IF Head(q_prog) = "step"
                             THEN progress.stepped + 1 ELSE progress.stepped]
          /\ q_prog' = Tail(q_prog)
          /\ poll_pc' = "prog"
     ELSE /\ poll_pc' = "log"
          /\ UNCHANGED <<progress, q_prog>>
  /\ UNCHANGED <<fs, outdir, tree, row_data, var_title, opts, items, total, job, threads, runs,
                 max_runs, seo, rejected, w, q_log, emitted, txt, stop_processing, faults_left,
                 start_fs>>

\* ------------------------------------------------------------- the front end
\* Removes index k of a sequence.
without(seq, k) == [j \in 1..Len(seq) - 1 |-> IF j < k THEN seq[j] ELSE seq[j + 1]]

FrontFrame == UNCHANGED <<fs, outdir, items, total, job, threads, runs, max_runs, seo, rejected, w,
                          q_log, q_prog, emitted, progress, txt, poll_pc, stop_processing,
                          faults_left, start_fs>>

\* App._add (add files, add folder, drop): a path with a supported extension that
\* is not yet a row becomes a row with its stem as final name.
add(p) ==
  /\ lower(ext_of(p)) \in SUPPORTED_EXT
  /\ p \notin DOMAIN row_data
  /\ row_data' = [q \in DOMAIN row_data \cup {p} |->
                    IF q = p THEN [final_name |-> stem_of(p), title |-> ""] ELSE row_data[q]]
  /\ tree' = Append(tree, p)
  /\ UNCHANGED <<var_title, opts>>
  /\ FrontFrame

\* App._apply_selected on row iid with the editor holding `name` and `title`.
apply_selected(iid, name, title) ==
  /\ iid \in DOMAIN row_data
  /\ row_data' = [row_data EXCEPT ![iid] =
                    [final_name |-> IF strip(name) # "" THEN strip(name) ELSE @.final_name,
                     title |-> strip(title)]]
  /\ UNCHANGED <<tree, var_title, opts>>
  /\ FrontFrame

\* App._apply_globals_to_all: a row without a title gets the default title.
apply_globals_to_all ==
  /\ row_data' = [iid \in DOMAIN row_data |->
                    IF row_data[iid].title = ""
                    THEN [row_data[iid] EXCEPT !.title = strip(var_title)]
                    ELSE row_data[iid]]
  /\ UNCHANGED <<tree, var_title, opts>>
  /\ FrontFrame

\* App._remove_selected with row k selected.
remove_selected(k) ==
  /\ k \in DOMAIN tree
  /\ row_data' = [iid \in DOMAIN row_data \ {tree[k]} |-> row_data[iid]]
  /\ tree' = without(tree, k)
  /\ UNCHANGED <<var_title, opts>>
  /\ FrontFrame

\* App._clear_list
clear_list ==
  /\ tree' = <<>>
  /\ row_data' = [iid \in {} |-> [final_name |-> "", title |-> ""]]
  /\ UNCHANGED <<var_title, opts>>
  /\ FrontFrame

\* The operator types into the default title field.
edit_var_title(t) ==
  /\ var_title' = t
  /\ UNCHANGED <<tree, row_data, opts>>
  /\ FrontFrame

\* The rows a profile's "files" make, in order; a path that is a row already is
\* skipped.  No test of the extension.
RECURSIVE profile_rows(_, _)
profile_rows(files, acc) ==
  IF files = <<>> THEN acc
  ELSE profile_rows(Tail(files),
                    IF \E j \in DOMAIN acc : acc[j].path = Head(files).path
                    THEN acc ELSE Append(acc, Head(files)))

\* App._load_profile with profile d: the fields and check boxes are set, the list is
\* cleared and the profile's files become the rows.
load_profile(d) ==
  /\ var_title' = d.title
  /\ opts' = d.opts @@ d.gps @@ NoResize @@ ConvertPng @@ opts
  /\ LET rows == profile_rows(d.files, <<>>)
     IN /\ tree' = [j \in DOMAIN rows |-> rows[j].path]
        /\ row_data' = [iid \in {rows[j].path : j \in DOMAIN rows} |->
                          LET j == CHOOSE j \in DOMAIN rows : rows[j].path = iid
                          IN [final_name |-> rows[j].final_name, title |-> rows[j].title]]
  /\ FrontFrame

\* What the operator may type, select or load.
ProfileFiles ==
  {[path |-> SrcA, final_name |-> "b", title |-> " t "],
   [path |-> SrcD, final_name |-> "b", title |-> ""]}
Profiles ==
  {[title |-> "t", opts |-> [n \in OptNames |-> TRUE], gps |-> BlankGps, files |-> fs_] :
     fs_ \in {<<>>} \cup {<<f>> : f \in ProfileFiles}
              \cup {<<f, g>> : f \in ProfileFiles, g \in ProfileFiles}}

\* The operations on the rows and fields that the claims about a running worker
\* name.
edits ==
  \/ \E iid \in DOMAIN row_data, name \in {"", "b"}, title \in {"", " t "} :
       apply_selected(iid, name, title)
  \/ apply_globals_to_all
  \/ \E k \in DOMAIN tree : remove_selected(k)
  \/ clear_list
  \/ \E t \in {"", "t"} : edit_var_title(t)
  \/ \E d \in Profiles : load_profile(d)

\* ------------------------------------------------------------- cancellation
\* The run's cancel flag is raised (Event.set on self._stop_processing) while the
\* worker is alive.  The program creates the flag (line 336), clears it when a run
\* starts (line 857) and reads it between items (line 883).
stop_set ==
  /\ is_alive
  /\ ~stop_processing
  /\ stop_processing' = TRUE
  /\ UNCHANGED <<fs, outdir, tree, row_data, var_title, opts, items, total, job, threads, runs,
                 max_runs, seo, rejected, w, q_log, q_prog, emitted, progress, txt, poll_pc,
                 faults_left, start_fs>>

\* ------------------------------------------------------------- optimizador_seo.py
\* The platforms the program runs on: file names are told apart by case on "linux"
\* only, and os.rename onto an existing file raises on "windows" only.
Platforms == {"linux", "mac", "windows"}

\* The entry of the file system that a path names on the platform of the window.
fkey(p) == IF seo.pf = "linux" THEN p ELSE MkPath(p[1], p[2], p[3], lower(p[4]))

\* os.path.exists(p)
seo_exists(p) == fkey(p) \in DOMAIN fs

\* The files the operator may add, and the image each holds at the start.
SeoSources ==
  <<MkPath("in", "a", 0, "png"), MkPath("in", "b", 0, "webp"), MkPath("in", "b", 0, "WEBP")>>
SeoImage(k) == [Good EXCEPT !.i = k]

\* The five check boxes read at lines 239-243 (do_gps also stands for a latitude and
\* a longitude that are not blank).
SeoOptNames == {"do_convert", "do_title", "do_gps", "do_delete", "do_clean"}

SeoOff ==
  [pc |-> "off", pf |-> "linux", item_path |-> <<>>, nuevo |-> <<>>,
   opts |-> [n \in SeoOptNames |-> FALSE], runs |-> 0, i |-> 0, src |-> NoPath,
   base |-> "", target |-> NoPath, created_new_file |-> FALSE, renamed |-> FALSE,
   log |-> <<>>]

SeoFrame ==
  UNCHANGED <<outdir, tree, row_data, var_title, opts, items, total, job, threads, runs,
              max_runs, rejected, w, q_log, q_prog, emitted, progress, txt, poll_pc,
              stop_processing, start_fs>>

\* self.log(...)
seo_log(t) == Append(seo.log, [t |-> t, i |-> seo.i])

\* convert_to_webp, lines 36-39: the final path and the temporary path
final_path(input_path, name) == MkPath(dir_of(input_path), name, 0, "webp")
tmp_path(final) == MkPath(final[1], final[2], final[3], "webp.tmp")

\* What convert_to_webp encodes from the image c: the same picture, RGB, as WEBP
converted(c, r) ==
  encoded([Out(c.i, r, c.size) EXCEPT !.px = rgb_px(c.mode, c.px)], "WEBP")

\* process_all, lines 234-248
process_all ==
  /\ seo.pc = "idle"
  /\ seo.runs < max_runs
  /\ seo.item_path # <<>>
  /\ seo' = [seo EXCEPT !.pc = "loop", !.i = 0, !.runs = @ + 1,
                        !.log = Append(@, [t |-> "inicio", i |-> 0])]
  /\ UNCHANGED <<fs, faults_left>>
  /\ SeoFrame

\* Lines 250-257 and 306: the next row; a row whose file is not found is skipped.
seo_loop ==
  /\ seo.pc = "loop"
  /\ IF seo.i < Len(seo.item_path)
     THEN LET i == seo.i + 1
              src == seo.item_path[i]
          IN seo' = IF ~seo_exists(src)
                    THEN [seo EXCEPT !.i = i, !.log = Append(@, [t |-> "skip", i |-> i])]
                    ELSE [seo EXCEPT !.i = i, !.pc = "output", !.src = src,
                                     !.base = IF seo.nuevo[i] # "" THEN seo.nuevo[i]
                                              ELSE stem_of(src),
                                     !.target = NoPath, !.created_new_file = FALSE,
                                     !.renamed = FALSE]
     ELSE seo' = [seo EXCEPT !.pc = "idle", !.log = Append(@, [t |-> "fin", i |-> 0])]
  /\ UNCHANGED <<fs, faults_left>>
  /\ SeoFrame

\* Line 265, convert_to_webp lines 35-40: the image is decoded and saved to the
\* temporary path; either may raise.
seo_convert ==
  /\ seo.pc = "output"
  /\ seo.opts["do_convert"]
  /\ LET c == at(fs, fkey(seo.src))
         tmp == tmp_path(final_path(seo.src, seo.base))
     IN \/ /\ ~Complete(c)
           /\ seo' = [seo EXCEPT !.pc = "error"]
           /\ UNCHANGED <<fs, faults_left>>
        \/ /\ Complete(c)
           /\ fs' = put(fs, fkey(tmp), converted(c, seo.runs))
           /\ seo' = [seo EXCEPT !.pc = "replace"]
           /\ UNCHANGED faults_left
        \/ /\ Complete(c)
           /\ MayFail
           /\ faults_left' = faults_left - 1
           /\ fs' \in {fs, put(fs, fkey(tmp), Partial)}
           /\ seo' = [seo EXCEPT !.pc = "error"]
  /\ SeoFrame

\* convert_to_webp line 41, then line 266: os.replace(tmp_path, final_path)
seo_replace ==
  /\ seo.pc = "replace"
  /\ LET final == final_path(seo.src, seo.base)
     IN \/ /\ fs' = moved(fs, fkey(tmp_path(final)), fkey(final))
           /\ seo' = [seo EXCEPT !.pc = "clean", !.target = final,
                                 !.created_new_file = TRUE]
           /\ UNCHANGED faults_left
        \/ /\ MayFail
           /\ faults_left' = faults_left - 1
           /\ seo' = [seo EXCEPT !.pc = "error"]
           /\ UNCHANGED fs
  /\ SeoFrame

\* Lines 268-274: without conversion the file is renamed when a new name is given
\* and the new path differs from the old one.
seo_rename ==
  /\ seo.pc = "output"
  /\ ~seo.opts["do_convert"]
  /\ LET new_full == MkPath(dir_of(seo.src), seo.base, 0, lower(ext_of(seo.src)))
         other == fkey(new_full) # fkey(seo.src)
     IN IF seo.nuevo[seo.i] # "" /\ new_full # seo.src
        THEN \/ /\ ~(seo.pf = "windows" /\ other /\ seo_exists(new_full))
                /\ fs' = IF other THEN moved(fs, fkey(seo.src), fkey(new_full)) ELSE fs
                /\ seo' = [seo EXCEPT !.pc = "clean", !.target = new_full,
                                      !.renamed = TRUE]
                /\ UNCHANGED faults_left
             \/ /\ seo.pf = "windows" /\ other /\ seo_exists(new_full)
                /\ seo' = [seo EXCEPT !.pc = "error"]
                /\ UNCHANGED <<fs, faults_left>>
             \/ /\ MayFail
                /\ faults_left' = faults_left - 1
                /\ seo' = [seo EXCEPT !.pc = "error"]
                /\ UNCHANGED fs
        ELSE /\ seo' = [seo EXCEPT !.pc = "clean", !.target = seo.src]
             /\ UNCHANGED <<fs, faults_left>>
  /\ SeoFrame

\* One ExifTool step at position pc: exiftool_run raises on a non-zero exit code
\* (lines 44-48), which ends the item at line 301.
seo_tool(pc, applies, next) ==
  /\ seo.pc = pc
  /\ \/ /\ seo' = [seo EXCEPT !.pc = next]
        /\ UNCHANGED faults_left
     \/ /\ applies
        /\ MayFail
        /\ faults_left' = faults_left - 1
        /\ seo' = [seo EXCEPT !.pc = "error"]
  /\ UNCHANGED fs
  /\ SeoFrame

\* Lines 277-284
seo_clean == seo_tool("clean", seo.opts["do_clean"], "title")
seo_title == seo_tool("title", seo.opts["do_title"], "gps")
seo_gps == seo_tool("gps", seo.opts["do_gps"], "delete")

\* The test of lines 287-288: the paths are compared as strings.
removes_source(do_delete, created_new_file, target, src) ==
  do_delete /\ created_new_file /\ target # src /\ seo_exists(target)
    /\ at(fs, fkey(target)).k # "none"

\* Lines 287-292: os.remove(src); a failure is logged.
seo_delete ==
  /\ seo.pc = "delete"
  /\ IF removes_source(seo.opts["do_delete"], seo.created_new_file, seo.target, seo.src)
     THEN \/ /\ fs' = remove(fs, fkey(seo.src))
             /\ seo' = [seo EXCEPT !.pc = "update"]
             /\ UNCHANGED faults_left
          \/ /\ MayFail
             /\ faults_left' = faults_left - 1
             /\ seo' = [seo EXCEPT !.pc = "update", !.log = seo_log("warn")]
             /\ UNCHANGED fs
     ELSE /\ seo' = [seo EXCEPT !.pc = "update"]
          /\ UNCHANGED <<fs, faults_left>>
  /\ SeoFrame

\* Lines 296-300: the row gets the target as its path
seo_update ==
  /\ seo.pc = "update"
  /\ seo' = [seo EXCEPT !.pc = "loop", !.item_path[seo.i] = seo.target,
                        !.log = seo_log("ok")]
  /\ UNCHANGED <<fs, faults_left>>
  /\ SeoFrame

\* Lines 301-302: except Exception: the error line, nothing else
seo_error ==
  /\ seo.pc = "error"
  /\ seo' = [seo EXCEPT !.pc = "loop", !.log = seo_log("error")]
  /\ UNCHANGED <<fs, faults_left>>
  /\ SeoFrame

\* ------------------------------------------------------------- initial states
\* Files that may be in the output folder before the first run.
PreCandidates == {SrcC, MkPath("out", "a", 0, "webp"), MkPath("out", "a", 1, "jpg")}

\* Work lists: rows are distinct paths (row_data is keyed by the path).
WorkLists ==
  {l \in UNION {[1..n -> Sources] : n \in 0..MaxItems} :
     \A i, j \in DOMAIN l : i # j => l[i] # l[j]}

InitWith(lists, optset, pres, kindsB, nruns, nfaults) ==
  /\ tree \in lists
  /\ row_data = [iid \in {tree[i] : i \in DOMAIN tree} |->
                    [final_name |-> stem_of(iid), title |-> ""]]
  /\ var_title = "d"
  /\ \E o \in optset : opts = o @@ BlankGps @@ NoResize @@ ConvertPng @@ Preflight
  /\ \E pre \in pres, bad \in kindsB :
       fs = [p \in {SrcA, SrcB} \cup pre |->
               IF p = SrcB THEN bad ELSE Good]
  /\ outdir = (\E p \in DOMAIN fs : dir_of(p) = "out")
  /\ items = <<>> /\ total = 0
  /\ job = opts
  /\ threads = {} /\ runs = 0 /\ max_runs = nruns /\ rejected = 0
  /\ seo = SeoOff
  /\ w = IdleWorker
  /\ q_log = <<>> /\ q_prog = <<>> /\ emitted = <<>>
  /\ progress = [maximum |-> 0, stepped |-> 0]
  /\ txt = <<>>
  /\ poll_pc = "log"
  /\ stop_processing = FALSE
  /\ faults_left = nfaults
  /\ start_fs = fs

Init == InitWith(WorkLists, AllOpts, SUBSET PreCandidates, {Corrupt, Trunc}, 1, MaxFaults)

\* One run of the batch.
Next == process \/ worker

Spec == Init /\ [][Next]_vars

\* The same batch run again: the operator presses "Procesar" after the worker ended.
InitRerun ==
  InitWith(WorkLists, {o \in AllOpts : o["clean_ai"] = o["set_dpi96"]},
           {{}, {SrcC}}, {Corrupt}, MaxRuns, MaxFaults)

SpecRerun == InitRerun /\ [][Next]_vars

\* The front end beside the worker: start requests at any time, and the poller;
\* no environment failure.
InitUI ==
  InitWith(WorkLists, {[n \in OptNames |-> b] : b \in BOOLEAN},
           {{}}, {Corrupt}, MaxRuns, 0)

NextUI == process \/ process_rejected \/ worker \/ poll_log \/ poll_prog

SpecUI == InitUI /\ [][NextUI]_vars

\* One run that may be cancelled at any moment.
InitCancel ==
  InitWith(WorkLists, {[n \in OptNames |-> b] : b \in BOOLEAN},
           {{}, PreCandidates}, {Corrupt}, 1, MaxFaults)

NextCancel == process \/ worker \/ stop_set

SpecCancel == InitCancel /\ [][NextCancel]_vars

\* One run beside the poller.
InitPoll ==
  InitWith(WorkLists, {[n \in OptNames |-> b] : b \in BOOLEAN},
           {{}, PreCandidates}, {Corrupt}, 1, MaxFaults)

NextPoll == process \/ worker \/ poll_log \/ poll_prog

SpecPoll == InitPoll /\ [][NextPoll]_vars

\* One run, with the operator working on the rows and fields while the worker is
\* alive: the rows and the default title are as Init made them when the run starts.
InitEdit ==
  InitWith(WorkLists, {[n \in OptNames |-> b] : b \in BOOLEAN}, {{}}, {Corrupt}, 1, 0)

NextEdit == process \/ worker \/ (is_alive /\ edits)

SpecEdit == InitEdit /\ [][NextEdit]_vars

\* The operator fills the list (add files, add folder, drop, load profile), then
\* runs the batch once.
InitList ==
  InitWith({<<>>}, {[n \in OptNames |-> b] : b \in BOOLEAN}, {{SrcD, SrcE}}, {Corrupt}, 1, 0)

fill_list ==
  \/ \E p \in {SrcA, SrcB, SrcD, SrcE} : Len(tree) < MaxItems /\ add(p)
  \/ \E d \in Profiles : load_profile(d)

NextList == (runs = 0 /\ fill_list) \/ process \/ worker

SpecList == InitList /\ [][NextList]_vars

\* A profile sets the default title and the row's own title (as written in the
\* file, untrimmed), then the batch runs once.
MergeProfiles ==
  {[title |-> dflt, opts |-> [n \in OptNames |-> TRUE], gps |-> BlankGps,
    files |-> <<[path |-> SrcA, final_name |-> "a", title |-> own],
                [path |-> SrcB, final_name |-> "b", title |-> dflt]>>] :
     dflt \in Titles, own \in Titles}

InitMerge == InitWith({<<>>}, {[n \in OptNames |-> FALSE]}, {{}}, {Corrupt}, 1, 0)

NextMerge == (runs = 0 /\ \E d \in MergeProfiles : load_profile(d)) \/ process \/ worker

SpecMerge == InitMerge /\ [][NextMerge]_vars

\* A profile sets the three GPS fields, then the batch runs once.
GpsProfiles ==
  {[title |-> "", opts |-> [n \in OptNames |-> TRUE],
    gps |-> [gps_lat |-> la, gps_lon |-> lo, gps_alt |-> al],
    files |-> <<[path |-> SrcA, final_name |-> "a", title |-> ""],
                [path |-> SrcB, final_name |-> "b", title |-> ""]>>] :
     la \in GpsInputs, lo \in GpsInputs, al \in GpsInputs}

InitGps == InitWith({<<>>}, {[n \in OptNames |-> FALSE]}, {{}}, {Corrupt}, 1, 0)

NextGps == (runs = 0 /\ \E d \in GpsProfiles : load_profile(d)) \/ process \/ worker

SpecGps == InitGps /\ [][NextGps]_vars

\* One decodable image of every size in Sizes, every max_w and max_h in 0..MaxDim
\* (0: no bound), every option on, one fault.
ResizeOpts ==
  {[n \in OptNames |-> TRUE] @@ [max_w |-> mw, max_h |-> mh] :
     mw \in 0..MaxDim, mh \in 0..MaxDim}

InitResize == InitWith({<<SrcB>>}, ResizeOpts, {{}}, {Sized(sz) : sz \in Sizes}, 1, 1)

NextResize == process \/ worker

SpecResize == InitResize /\ [][NextResize]_vars

\* A JPG, a PNG and a PNG whose extension is in capitals, with the option
\* "Convertir PNG->JPG" on or off, the other options all on or all off, one fault.
FormatOpts ==
  {[n \in OptNames |-> b] @@ [convert_png |-> c] : b \in BOOLEAN, c \in BOOLEAN}

InitFormat ==
  InitWith({<<SrcA>>, <<SrcB>>, <<SrcE>>, <<SrcA, SrcB>>}, FormatOpts, {{SrcE}}, {Good},
           1, 1)

NextFormat == process \/ worker

SpecFormat == InitFormat /\ [][NextFormat]_vars

\* Start requests with every state of the ExifTool field, of the output folder and
\* of the Pillow import; no environment failure during the run.
PreflightOpts ==
  {[n \in OptNames |-> TRUE]
     @@ [exiftool |-> e, outdir_usable |-> u, missing_pil |-> m] :
     e \in ExifPaths, u \in BOOLEAN, m \in BOOLEAN}

InitPreflight == InitWith(WorkLists, PreflightOpts, {{}}, {Corrupt}, MaxRuns, 0)

NextPreflight == process \/ process_rejected \/ worker

SpecPreflight == InitPreflight /\ [][NextPreflight]_vars

\* One decodable PNG of every mode and every pixel value, the white-background
\* option on or off, every other option on, one fault.
Pictures ==
  UNION {{[Good EXCEPT !.mode = m, !.px = px] :
            px \in [1..Len(getbands(m)) -> 0..MaxVal]} : m \in Modes}

FlattenOpts == {[n \in OptNames |-> TRUE] @@ [convert_png |-> TRUE, force_white |-> f] :
                  f \in BOOLEAN}

InitFlatten == InitWith({<<SrcB>>}, FlattenOpts, {{}}, Pictures, 1, 1)

NextFlatten == process \/ worker

SpecFlatten == InitFlatten /\ [][NextFlatten]_vars

\* Two decodable sources with the same stem, hence the same final name; every
\* combination of the options, no environment failure.
InitSameName == InitWith({<<SrcB, SrcE>>}, AllOpts, {{SrcE}}, {Good}, 1, 0)

NextSameName == process \/ worker

SpecSameName == InitSameName /\ [][NextSameName]_vars

\* optimizador_seo.py: up to MaxItems rows over distinct files, each with or without
\* a new name, on every platform; the options with do_gps as do_title.
SeoRows ==
  {l \in UNION {[1..n -> 1..Len(SeoSources)] : n \in 1..MaxItems} :
     \A i, j \in DOMAIN l : i # j => l[i] # l[j]}

SeoOptSets == {o \in [SeoOptNames -> BOOLEAN] : o["do_gps"] = o["do_title"]}

InitSeo ==
  /\ \E pf \in Platforms, l \in SeoRows, o \in SeoOptSets :
       \E nv \in [DOMAIN l -> {"", "b"}] :
         /\ seo = [SeoOff EXCEPT !.pc = "idle", !.pf = pf, !.opts = o, !.nuevo = nv,
                                 !.item_path = [k \in DOMAIN l |-> SeoSources[l[k]]]]
         /\ \A i, j \in DOMAIN l :
              i # j => fkey(SeoSources[l[i]]) # fkey(SeoSources[l[j]])
         /\ fs = [q \in {fkey(SeoSources[l[k]]) : k \in DOMAIN l} |->
                    SeoImage(CHOOSE k \in DOMAIN l : fkey(SeoSources[l[k]]) = q)]
  /\ tree = <<>> /\ row_data = <<>> /\ var_title = ""
  /\ opts = [n \in OptNames |-> FALSE] @@ BlankGps @@ NoResize @@ ConvertPng @@ Preflight
  /\ outdir = FALSE
  /\ items = <<>> /\ total = 0
  /\ job = opts
  /\ threads = {} /\ runs = 0 /\ max_runs = MaxRuns /\ rejected = 0
  /\ w = IdleWorker
  /\ q_log = <<>> /\ q_prog = <<>> /\ emitted = <<>>
  /\ progress = [maximum |-> 0, stepped |-> 0]
  /\ txt = <<>>
  /\ poll_pc = "log"
  /\ stop_processing = FALSE
  /\ faults_left = MaxFaults
  /\ start_fs = fs

NextSeo ==
  \/ process_all \/ seo_loop \/ seo_convert \/ seo_replace \/ seo_rename
  \/ seo_clean \/ seo_title \/ seo_gps \/ seo_delete \/ seo_update \/ seo_error

SpecSeo == InitSeo /\ [][NextSeo]_vars

\* ------------------------------------------------------------- what the log says
\* Positions in `emitted` of the messages of kind in `ts` about item i of run r
Lines(r, i, ts) ==
  {k \in DOMAIN emitted : emitted[k].r = r /\ emitted[k].i = i /\ emitted[k].t \in ts}

Done(r, i) == Lines(r, i, {"ok"}) # {}
Failed(r, i) == Lines(r, i, {"err"}) # {}
FailedWith(r, i, why) == \E k \in Lines(r, i, {"err"}) : emitted[k].why = why
Started(r, i) == Lines(r, i, {"start"}) # {}

\* Item i of the current run is behind the worker.
Past(i) ==
  \/ w.idx > i
  \/ w.idx = i /\ w.pc \in {"step", "loop", "totals", "done_msg", "finished"}


\* ------------------------------------------------------------- C1
\* C1 (as claimed): at every point of a run every final output path either does not
\* exist or holds a completely written image.
C1_OutputsNeverPartial == \A p \in OutPaths : at(fs, p).k # "partial"

\* ------------------------------------------------------------- C2
\* C2: the items are started in work-list order, a failed item is followed by the
\* next one, and when the worker has ended (not cancelled) every item of the list has
\* its terminal line.
C2_FailureIsolated ==
  /\ \A i \in 1..Len(items) : Started(runs, i) => \A j \in 1..i : Started(runs, j)
  /\ \A k1, k2 \in DOMAIN emitted :
       (/\ emitted[k1].r = emitted[k2].r
        /\ emitted[k1].t = "start" /\ emitted[k2].t = "start"
        /\ k1 < k2) => emitted[k1].i < emitted[k2].i
  /\ \A i \in 1..Len(items) :
       (Failed(runs, i) /\ w.idx = i /\ i < Len(items) /\ ~stop_processing)
         => w.pc \in {"step", "loop"}
  /\ (w.pc = "finished" /\ ~stop_processing)
       => \A i \in 1..Len(items) : Done(runs, i) \/ Failed(runs, i)

C2_Witness ==
  /\ w.pc = "finished" /\ Len(items) >= 2
  /\ Failed(runs, 1) /\ Done(runs, 2)

\* ------------------------------------------------------------- C3
\* C3: every started item has at most one terminal line, exactly one once the worker
\* is past it, never both kinds; the totals line counts the success and the failure
\* lines, and they add up to the items started.
StartedItems(r) == {i \in 1..MaxItems + 1 : Started(r, i)}

C3_OneResultPerItem ==
  /\ \A r \in 1..runs, i \in 1..MaxItems + 1 :
       /\ Cardinality(Lines(r, i, {"ok", "err"})) <= Cardinality(Lines(r, i, {"start"}))
       /\ Cardinality(Lines(r, i, {"start"})) <= 1
       /\ (r < runs \/ Past(i)) /\ Started(r, i)
            => Cardinality(Lines(r, i, {"ok", "err"})) = 1
  /\ \A k \in DOMAIN emitted :
       emitted[k].t = "totals" =>
         /\ emitted[k].ok = Cardinality({i \in StartedItems(emitted[k].r) : Done(emitted[k].r, i)})
         /\ emitted[k].fail =
              Cardinality({i \in StartedItems(emitted[k].r) : Failed(emitted[k].r, i)})
         /\ emitted[k].ok + emitted[k].fail = Cardinality(StartedItems(emitted[k].r))
         /\ ~stop_processing /\ emitted[k].r = runs
              => emitted[k].ok + emitted[k].fail = Len(items)

C3_Witness ==
  \E k \in DOMAIN emitted :
    emitted[k].t = "totals" /\ emitted[k].ok = 1 /\ emitted[k].fail = 1

\* ------------------------------------------------------------- C4
\* Some ExifTool invocation of the current item returned a non-zero code (at "begin"
\* the calls are still those of the item before).
ToolFailed == w.pc # "begin" /\ \E k \in DOMAIN w.calls : w.calls[k].code # 0

\* The metadata steps are over for the current item.
AfterMetadata == w.pc \in {"rename", "unlink", "item_ok", "step"} /\ w.why = ""

\* C4 (as claimed): an item with a failed ExifTool invocation is not aborted, the
\* failure is logged, the write-fields step still runs on the JPG, and the item ends
\* Done with its output file present.
C4_ToolFailureNotFatal ==
  ToolFailed =>
    /\ w.why = "" /\ w.pc # "item_fail"
    /\ \A k \in DOMAIN w.calls :
         w.calls[k].code # 0 =>
           \E n \in Lines(runs, w.idx, {"diag"}) : emitted[n].why = w.calls[k].op
    /\ AfterMetadata =>
         \E k \in DOMAIN w.calls : w.calls[k].op = "meta" /\ w.calls[k].ext = "jpg"
    /\ w.pc = "step" => Done(runs, w.idx) /\ Complete(at(fs, w.jpg_path))

\* ------------------------------------------------------------- C5
\* The current item is at the collision test, overwrite is off and the JPG exists.
AtCollision ==
  /\ w.pc = "export_check"
  /\ ~job["overwrite"]
  /\ exists(MkPath("out", w.final_name, 0, "jpg"))

\* C5: an item that meets an existing JPG with overwrite off fails with the collision
\* error without decoding anything, and from its start to its end no file and no
\* folder is created, changed or removed.
C5_CollisionWritesNothing ==
  [][/\ AtCollision =>
          /\ w'.pc = "item_fail" /\ w'.why = "collision" /\ w'.img = NoFile
          /\ w'.calls = <<>>
     /\ (w.pc = "begin" \/ AtCollision \/ w.why = "collision") =>
          /\ fs' = fs
          /\ outdir' = outdir
     /\ (w.pc = "item_fail" /\ w.why = "collision") =>
          emitted' = Append(emitted, Msg("err", runs, w.idx, "collision", 0, 0))]_vars

C5_Witness == w.pc = "step" /\ w.why = "collision" /\ FailedWith(runs, w.idx, "collision")

\* ------------------------------------------------------------- C6
\* C6 (as claimed): with overwrite off and the WEBP sibling requested, a file that is
\* already at <final name>.webp is left as it is and the item fails with the
\* collision error.
C6_WebpCollisionDetected ==
  [][(/\ w.pc = "webp"
      /\ job["make_webp"] /\ ~job["overwrite"]
      /\ exists(w.webp_path)) =>
       /\ at(fs', w.webp_path) = at(fs, w.webp_path)
       /\ w'.pc = "item_fail" /\ w'.why = "collision"]_vars

\* ------------------------------------------------------------- C7
\* The current item is at the rename and "<final name>-meta.jpg" is taken.
MetaTaken ==
  /\ w.pc = "rename"
  /\ job["rename_after_meta"]
  /\ exists(MkPath("out", w.final_name, 1, "jpg"))

\* C7: when "<final name>-meta.jpg" is taken the JPG is moved to a "-meta_<i>" name
\* that did not exist; every other file is left as it was; the rename is never
\* refused because the name exists, with overwrite on or off; only a failure of the
\* move itself keeps the JPG where it was.
C7_RenameAvoidsCollision ==
  [][MetaTaken =>
       /\ \/ /\ w'.jpg_path # w.jpg_path
             /\ meta_of(w'.jpg_path) >= 2
             /\ stem_of(w'.jpg_path) = w.final_name /\ dir_of(w'.jpg_path) = "out"
             /\ ~exists(w'.jpg_path)
             /\ at(fs', w'.jpg_path) = at(fs, w.jpg_path)
             /\ \A p \in AllPaths \ {w.jpg_path, w'.jpg_path} : at(fs', p) = at(fs, p)
             /\ emitted' = emitted
          \/ /\ w'.jpg_path = w.jpg_path
             /\ fs' = fs
             /\ faults_left' = faults_left - 1
             /\ emitted' = Append(emitted, Msg("diag", runs, w.idx, "rename", 0, 0))
       /\ w'.pc = "unlink"]_vars

C7_Witness == w.pc = "unlink" /\ meta_of(w.jpg_path) >= 2 /\ ~job["overwrite"]

\* ------------------------------------------------------------- C8
\* The deletion of item i's source was attempted and failed (logged, non-fatal).
DeletionFailed(r, i) == \E k \in Lines(r, i, {"diag"}) : emitted[k].why = "unlink"

\* C8 (as claimed): when the run has ended, the source of every item that succeeded
\* (and whose deletion, if attempted, did not fail) is gone if keep_original is off,
\* and is there with the content it had when the run started if keep_original is on.
C8_SourceKeptOrDeleted ==
  w.pc = "finished" =>
    \A i \in 1..Len(items) :
      (Done(runs, i) /\ ~DeletionFailed(runs, i)) =>
        IF job["keep_original"]
        THEN at(fs, items[i]) = at(start_fs, items[i]) /\ exists(items[i])
        ELSE ~exists(items[i])

\* ------------------------------------------------------------- C9
SecondRunEnded == runs = 2 /\ w.pc = "finished"

EnvFailure(r) ==
  \E k \in DOMAIN emitted :
    /\ emitted[k].r = r
    /\ \/ emitted[k].t = "diag" /\ emitted[k].why \in {"webp", "rename", "unlink"}
       \/ emitted[k].t = "err" /\ emitted[k].why = "encode"

C10_OneWorker ==
  /\ [](Cardinality(threads) <= 1)
  /\ [][/\ is_alive =>
             /\ runs' = runs
             /\ threads' \subseteq threads
             /\ items' = items /\ total' = total /\ job' = job
             /\ progress'.maximum = progress.maximum
             /\ stop_processing' = stop_processing
        /\ rejected' # rejected =>
             UNCHANGED <<fs, outdir, tree, row_data, var_title, opts, items, total, job, threads,
                         runs, max_runs, seo, w, q_log, q_prog, emitted, progress, txt,
                         poll_pc, stop_processing, faults_left, start_fs>>]_vars

C10_Witness == rejected > 0 /\ is_alive /\ w.pc = "save_jpg_end" /\ runs < max_runs
                 /\ validate_before_process = "ok"

\* ------------------------------------------------------------- C11
\* C11: once the cancel flag is set, the item the worker is in goes on (the worker
\* leaves it only through its terminal line and the progress step), the worker
\* takes no further item, and at the loop head it goes to the totals line; when the
\* worker has ended, every item up to the current one has exactly one terminal line,
\* no later item has a start line, and the totals line and the done message are the
\* last things put on the queues.
C11_CancelBetweenItems ==
  /\ [][(stop_processing /\ stop_processing') =>
          /\ w'.idx = w.idx
          /\ w.pc = "loop" => w'.pc = "totals"
          /\ w.pc \notin {"loop", "item_ok", "item_fail", "step", "totals", "done_msg",
                         "finished"} =>
               w'.pc \notin {"loop", "step", "totals", "done_msg", "finished"}
          /\ w.pc = "step" => w'.pc = "loop"
          /\ w.pc = "totals" => w'.pc = "done_msg"
          /\ w.pc = "done_msg" => w'.pc = "finished"
          /\ w.pc \in {"item_ok", "item_fail"} =>
               /\ w'.pc = "step"
               /\ Cardinality(Lines(runs, w.idx, {"ok", "err"})') = 1]_vars
  /\ [](w.pc = "finished" /\ stop_processing =>
          /\ \A i \in 1..Len(items) :
               IF i <= w.idx
               THEN Cardinality(Lines(runs, i, {"ok", "err"})) = 1
               ELSE ~Started(runs, i)
          /\ emitted[Len(emitted)] = Msg("totals", runs, 0, "", w.ok, w.fail)
          /\ w.ok + w.fail = w.idx
          /\ q_prog # <<>> /\ q_prog[Len(q_prog)] = "done")

\* Cancelled in the middle of the first of two items: the first item has ended, the
\* second was never started, and the worker has ended with the totals line.
C11_Witness ==
  /\ w.pc = "finished" /\ stop_processing
  /\ Len(items) = 2 /\ w.idx = 1
  /\ Done(runs, 1) /\ ~Started(runs, 2)

\* ------------------------------------------------------------- C12
\* The number of ("step", 1) messages the worker of the (only) run has put.
StepsPut ==
  IF w.pc = "idle" THEN 0
  ELSE IF w.pc \in {"loop", "totals", "done_msg", "finished"} THEN w.idx
  ELSE w.idx - 1

\* The number of ("step", 1) messages waiting in a queue
RECURSIVE count_steps(_)
count_steps(q) ==
  IF q = <<>> THEN 0 ELSE (IF Head(q) = "step" THEN 1 ELSE 0) + count_steps(Tail(q))

\* The front end has shown a line of kind in ts about item i of run r.
Shown(r, i, ts) == \E k \in DOMAIN txt : txt[k].r = r /\ txt[k].i = i /\ txt[k].t \in ts

C13_RunUsesSnapshot ==
  (w.idx >= 1 /\ w.pc # "begin") =>
    /\ w.src = items[w.idx]
    /\ w.final_name = stem_of(w.src)
    /\ w.title = "d"

\* ------------------------------------------------------------- C14
\* C14 (as claimed): an item whose extension is not a supported one is never
\* transformed: once the worker has taken it, nothing is decoded or encoded for it
\* and it is not reported Done.
C14_UnsupportedNeverTransformed ==
  (w.idx >= 1 /\ w.pc # "begin" /\ lower(ext_of(w.src)) \notin SUPPORTED_EXT) =>
    /\ w.pc # "export_transform"
    /\ w.img = NoFile
    /\ ~Done(runs, w.idx)

\* ------------------------------------------------------------- C15
\* The source of the current item cannot be decoded: it is missing, not recognised
\* as an image, or its pixel data cannot be read.
Undecodable == ~Complete(at(fs, w.src))

\* C15: an item whose source cannot be decoded fails, at the opening or at the
\* loading of the pixel data, with nothing encoded; from the moment the worker
\* takes the item to its error line no file is created, changed or removed, so no
\* output, empty or partial, is left; and the item is never reported Done.
C15_DecodeFailureNoOutput ==
  /\ [][/\ (w.pc = "export_open" /\ at(fs, w.src).k \in {"none", "corrupt"}) =>
             w'.pc = "item_fail" /\ w'.why \in {"decode", "nofile"}
        /\ (w.pc = "export_transform" /\ Undecodable) =>
             w'.pc = "item_fail" /\ w'.why = "decode"
        /\ (\/ w.pc \in {"begin", "export_check", "export_open", "export_flatten",
                       "export_transform"}
            \/ w.why \in {"decode", "nofile"}) =>
             fs' = fs /\ outdir' = outdir
        /\ (w.pc = "item_fail" /\ w.why \in {"decode", "nofile"}) =>
             /\ w'.pc = "step"
             /\ emitted' = Append(emitted, Msg("err", runs, w.idx, w.why, 0, 0))]_vars
  /\ [](w.why \in {"decode", "nofile"} =>
          /\ w.img = NoFile /\ ~w.created /\ w.calls = <<>>
          /\ ~Done(runs, w.idx))

\* An item whose source has unreadable pixel data has failed.
C15_Witness ==
  /\ w.pc = "step" /\ w.why = "decode"
  /\ at(fs, w.src).k = "trunc"
  /\ FailedWith(runs, w.idx, "decode")

\* ------------------------------------------------------------- C16
\* The paths the success line of the current item names: "<final_name>.jpg" in the
\* output folder.
ReportedPaths ==
  {MkPath("out", emitted[k].why, 0, "jpg") : k \in Lines(runs, w.idx, {"ok"})}

\* The files the current item has produced: the JPG where it now is, and the WEBP
\* sibling when it was requested and is there.
ProducedPaths ==
  {w.jpg_path} \cup (IF job["make_webp"] /\ exists(w.webp_path) THEN {w.webp_path} ELSE {})

\* C16 (as claimed): when the success line of an item has just been emitted, every
\* path it reports exists and the paths it reports are the files the item produced
\* (stated for a source outside the output folder, so that the deletion of the
\* source cannot be what removed a reported file).
C16_ReportedPathsExist ==
  (w.pc = "step" /\ Done(runs, w.idx) /\ dir_of(w.src) # "out") =>
    /\ \A p \in ReportedPaths : exists(p)
    /\ ReportedPaths = ProducedPaths

\* ------------------------------------------------------------- C17
\* The current item's own title as the row holds it.
OwnTitle == IF w.src \in DOMAIN row_data THEN row_data[w.src].title ELSE ""

\* C17: the title the worker applies to an item (and alt text, description and
\* keywords, merged by the same expression) is the row's own value, trimmed, when
\* that is not blank after trimming, and the default, trimmed, otherwise; a value of
\* white space only never wins over the default.
C17_OverrideWinsIfNonBlank ==
  (w.idx >= 1 /\ w.pc # "begin") =>
    /\ OwnTitle \notin {"", " "} => w.title = strip(OwnTitle) /\ w.title \notin {"", " "}
    /\ OwnTitle \in {"", " "} => w.title = strip(var_title)
    /\ w.title # " "

\* The row's own title is white space, the default is not blank: the default is used.
C17_Witness ==
  /\ w.pc = "step" /\ OwnTitle = " " /\ var_title = " t " /\ w.title = "t"

\* ------------------------------------------------------------- C18
\* The write-fields invocations of the current item.
MetaCalls == {k \in DOMAIN w.calls : w.calls[k].op = "meta"}

HasTag(a, name) == \E j \in DOMAIN a : a[j].tag = name

\* C18: a write-fields invocation carries GPS tags exactly when latitude and
\* longitude are both numbers; then the latitude reference is "S" below zero and "N"
\* otherwise, the longitude reference "W" below zero and "E" otherwise, both
\* magnitudes are the absolute values, and the altitude is there exactly when it is a
\* number too; otherwise there is no GPS tag at all.
C18_GpsRefAndMagnitude ==
  \A k \in MetaCalls :
    LET a == w.calls[k].args
        lat == job["gps_lat"]
        lon == job["gps_lon"]
        alt == job["gps_alt"]
    IN IF lat.s = "num" /\ lon.s = "num"
       THEN /\ Len(a) >= 4
            /\ a[1].tag = "GPSLatitudeRef" /\ a[1].ref = (IF lat.v < 0 THEN "S" ELSE "N")
            /\ a[2].tag = "GPSLatitude" /\ a[2].num >= 0 /\ a[2].num \in {lat.v, -lat.v}
            /\ a[3].tag = "GPSLongitudeRef" /\ a[3].ref = (IF lon.v < 0 THEN "W" ELSE "E")
            /\ a[4].tag = "GPSLongitude" /\ a[4].num >= 0 /\ a[4].num \in {lon.v, -lon.v}
            /\ HasTag(a, "GPSAltitude") <=> alt.s = "num"
            /\ alt.s = "num" => Len(a) = 5 /\ a[5].num = alt.v
            /\ alt.s # "num" => Len(a) = 4
       ELSE a = <<>>

\* Latitude and longitude below zero, altitude given: "S", "W" and five tags.
C18_Witness ==
  \E k \in MetaCalls :
    /\ job["gps_lat"].s = "num" /\ job["gps_lat"].v < 0
    /\ job["gps_lon"].s = "num" /\ job["gps_lon"].v < 0
    /\ Len(w.calls[k].args) = 5
    /\ w.calls[k].args[1].ref = "S" /\ w.calls[k].args[3].ref = "W"
    /\ w.calls[k].args[2].num = MaxCoord

\* ------------------------------------------------------------- C19
\* The least of 1, max_w / x (when max_w > 0) and max_h / y (when max_h > 0), as
\* <<numerator, denominator>>.
Factor(size, mw, mh) ==
  LET cands == {<<1, 1>>} \cup (IF mw > 0 THEN {<<mw, size[1]>>} ELSE {})
                         \cup (IF mh > 0 THEN {<<mh, size[2]>>} ELSE {})
  IN CHOOSE f \in cands : \A g \in cands : f[1] * g[2] <= g[1] * f[2]

\* v is x scaled by f and cut to an integer, not below 1; where x * f is an integer
\* the floating-point product may fall one short of it.
ScaledBy(v, x, f) ==
  \/ v = 1 /\ x * f[1] < 2 * f[2]
  \/ v >= 1 /\ v * f[2] <= x * f[1] /\ (v + 1) * f[2] > x * f[1]
  \/ v >= 1 /\ (v + 1) * f[2] = x * f[1] /\ f[1] < f[2]

\* The image the worker holds after the export step has transformed the source.
Resized == w.pc = "save_jpg" /\ dir_of(w.src) # "out"

\* C19: the resized image is no larger than the source in either dimension, within
\* max_w and max_h where these are set (above 0), both dimensions coming from the one
\* factor min(1, max_w / w, max_h / h) over the set bounds; a source already within
\* the bounds keeps its dimensions.
C19_ResizeWithinBounds ==
  Resized =>
    LET src == at(fs, w.src).size
        new == w.img.size
        mw == job["max_w"]
        mh == job["max_h"]
        f == Factor(src, mw, mh)
    IN /\ new[1] <= src[1] /\ new[2] <= src[2]
       /\ mw > 0 => new[1] <= mw
       /\ mh > 0 => new[2] <= mh
       /\ ScaledBy(new[1], src[1], f) /\ ScaledBy(new[2], src[2], f)
       /\ ((mw = 0 \/ src[1] <= mw) /\ (mh = 0 \/ src[2] <= mh)) => new = src

\* An image wider and taller than both bounds has been scaled down.
C19_Witness ==
  /\ Resized
  /\ job["max_w"] > 0 /\ job["max_h"] > 0
  /\ at(fs, w.src).size[1] > job["max_w"] /\ at(fs, w.src).size[2] > job["max_h"]
  /\ w.img.size # at(fs, w.src).size
  /\ w.img.size[1] > 1

\* ------------------------------------------------------------- C20
\* The container format that goes with a (lower-case) extension
FormatOf(e) ==
  CASE e \in {"jpg", "jpeg"} -> "JPEG"
    [] e = "png" -> "PNG"
    [] e \in {"tif", "tiff"} -> "TIFF"
    [] e = "webp" -> "WEBP"
    [] OTHER -> ""

\* The item's source is a PNG, TIFF or WEBP and the job has the conversion off.
KeepsFormat ==
  /\ lower(ext_of(w.src)) \in {"png", "tif", "tiff", "webp"}
  /\ ~job["convert_png"]

\* The item's primary output has just been written.
PrimaryWritten == w.pc = "webp" /\ dir_of(w.src) # "out"

\* C20: the primary output of an item is a JPEG named .jpg, except that with the
\* conversion off a PNG, TIFF or WEBP source gives a primary output in the source's
\* own format and extension.
C20_PrimaryOutputFormat ==
  PrimaryWritten =>
    LET e == lower(ext_of(w.src))
        out == w.jpg_path
    IN IF KeepsFormat
       THEN ext_of(out) = e /\ at(fs, out).fmt = FormatOf(e)
       ELSE ext_of(out) = "jpg" /\ at(fs, out).fmt = "JPEG"

\* ------------------------------------------------------------- C21
\* The success line of the current item has just been put.
JustDone == w.pc = "step" /\ Done(runs, w.idx) /\ dir_of(w.src) # "out"

\* C21: with make_webp set (the primary output is a JPEG, never a WEBP), an item that
\* is reported Done has its WEBP output, complete and its own, at
\* <outdir>/<final_name>.webp.
C21_DoneHasWebp ==
  (JustDone /\ job["make_webp"]) =>
    LET c == at(fs, MkPath("out", w.final_name, 0, "webp"))
    IN Complete(c) /\ c.k = "out" /\ c.i = w.idx /\ c.r = runs /\ c.fmt = "WEBP"

\* ------------------------------------------------------------- C22
ToolPcs == {"clean_jpg", "clean_webp", "dpi_jpg", "dpi_webp", "meta_jpg", "meta_webp"}

\* strip, then set-resolution, then write-descriptive-fields
Rank(op) == CASE op = "clean" -> 1 [] op = "dpi" -> 2 [] op = "meta" -> 3

\* The invocations on each file are in rising rank, so each happens at most once and
\* no strip follows a write of the descriptive fields.
CallsOrdered ==
  \A j, k \in DOMAIN w.calls :
    (j < k /\ w.calls[j].ext = w.calls[k].ext) => Rank(w.calls[j].op) < Rank(w.calls[k].op)

\* The file an invocation of the current item acts on
ToolTarget(ext) == IF ext = "jpg" THEN w.jpg_path ELSE webp_real

\* This step of the worker invokes the metadata tool.
Invokes == w.pc # "begin" /\ w'.calls # w.calls

\* At an invocation the target is complete, written by this item, the primary output
\* has not been renamed and the source has not been deleted.
InvokedInPlace ==
  Invokes =>
    LET c == w'.calls[Len(w'.calls)]
        t == at(fs, ToolTarget(c.ext))
    IN /\ w.pc \in ToolPcs
       /\ Complete(t) /\ t.k = "out" /\ t.i = w.idx /\ t.r = runs
       /\ w.jpg_path = MkPath("out", w.final_name, 0, "jpg")
       /\ dir_of(w.src) # "out" => at(fs, w.src) = at(start_fs, w.src)

\* C22: on each output file of an item the metadata tool is invoked in the order
\* strip, set-resolution, write-descriptive-fields, each at most once, on a file that
\* has been written in full, before the "-meta" rename and the source deletion.
C22_ToolOrder == [](w.pc # "begin" => CallsOrdered) /\ [][InvokedInPlace]_vars

\* ------------------------------------------------------------- C23
\* The "-meta" rename of item i was attempted and failed (logged).
RenameFailed(r, i) ==
  \E k \in Lines(r, i, {"diag"}) : emitted[k].why \in {"rename", "rename_exists"}

\* The last line put on the log is a diagnostic of the current item.
DiagPut ==
  /\ Len(emitted') = Len(emitted) + 1
  /\ emitted'[Len(emitted')].t = "diag" /\ emitted'[Len(emitted')].i = w.idx

\* A rename or a deletion that was due and left the files as they were is logged.
FailureLogged ==
  /\ (w.pc = "rename" /\ job["rename_after_meta"] /\ fs' = fs /\ w'.pc # "rename")
       => DiagPut
  /\ (w.pc = "unlink" /\ ~job["keep_original"] /\ exists(w.src) /\ fs' = fs
         /\ w'.pc # "unlink") => DiagPut

\* After a failed rename the primary output is complete at its path before the rename.
IntactAfterRename ==
  (w.pc = "unlink" /\ RenameFailed(runs, w.idx)) =>
    /\ w.jpg_path = MkPath("out", w.final_name, 0, "jpg")
    /\ Complete(at(fs, w.jpg_path)) /\ at(fs, w.jpg_path).k = "out"
    /\ at(fs, w.jpg_path).i = w.idx /\ at(fs, w.jpg_path).r = runs

\* After a failed deletion the source is on disk.
SourceAfterDeletion ==
  (w.pc = "item_ok" /\ DeletionFailed(runs, w.idx)) =>
    (exists(w.src) /\ Complete(at(fs, w.src)))

\* Neither failure makes the item an error.
StillSuccess ==
  /\ w.pc = "item_fail" => (~RenameFailed(runs, w.idx) /\ ~DeletionFailed(runs, w.idx))
  /\ (w.pc = "step" /\ (RenameFailed(runs, w.idx) \/ DeletionFailed(runs, w.idx))) =>
       (Done(runs, w.idx) /\ ~Failed(runs, w.idx))

\* C23: a failed "-meta" rename and a failed source deletion are logged and the item
\* still counts as a success; after the failed rename the primary output is complete
\* at its path before the rename, after the failed deletion the source is on disk.
C23_RenameDeleteNonFatal ==
  [](IntactAfterRename /\ SourceAfterDeletion /\ StillSuccess) /\ [][FailureLogged]_vars

\* An item whose rename failed has been reported Done.
C23_Witness ==
  /\ w.pc = "step" /\ Done(runs, w.idx)
  /\ \E k \in Lines(runs, w.idx, {"diag"}) : emitted[k].why = "rename"

\* ------------------------------------------------------------- C24
\* This step is a start request that was turned down.
TurnedDown == rejected' = rejected + 1

\* This step starts a run.
RunStarts == runs' = runs + 1

\* A request that is turned down starts no worker, emits nothing and touches no file.
NothingAttempted == TurnedDown => UNCHANGED <<threads, w, emitted, q_log, q_prog, fs>>

FlattenedNoAlpha ==
  /\ w.pc = "export_transform"
  /\ flattens(w.src, job["force_white"])
  /\ ~has_alpha(at(fs, w.src).mode)

\* C25: force_white_background_if_transparent returns an image without
\* alpha channel as it is, same mode and same pixel values, whatever its mode.
C25_NoAlphaUnchanged ==
  FlattenedNoAlpha => w.img = at(fs, w.src)

\* ------------------------------------------------------------- C26
\* The primary output path of the current item is its source.
OutputIsSource == w.src = MkPath("out", w.final_name, 0, "jpg")

\* C26: with keep_original off, an item whose primary output path is its own source
\* still has its complete output on disk when it is reported Done.
C26_DeletionSparesOutput ==
  (w.pc = "step" /\ Done(runs, w.idx) /\ ~job["keep_original"] /\ OutputIsSource) =>
    (exists(w.jpg_path) /\ Complete(at(fs, w.jpg_path)))

\* ------------------------------------------------------------- C27
\* c is the complete image that item i of the current run made.
MadeBy(c, i) == c.k = "out" /\ c.i = i /\ c.r = runs

\* Item i has a primary output of its own in the output folder.
HasOwnJpg(i) ==
  \E p \in DOMAIN fs : dir_of(p) = "out" /\ ext_of(p) = "jpg" /\ MadeBy(fs[p], i)

\* Item i has a WEBP of its own in the output folder.
HasOwnWebp(i) ==
  \E p \in DOMAIN fs : dir_of(p) = "out" /\ ext_of(p) = "webp" /\ MadeBy(fs[p], i)

\* C27: when the run has ended, every item reported Done has its own primary output
\* and, with make_webp, its own WEBP on disk, also when two items have the same final
\* name.
C27_SameNameKeepsOutputs ==
  w.pc = "finished" =>
    \A i \in 1..Len(items) :
      Done(runs, i) => (HasOwnJpg(i) /\ (job["make_webp"] => HasOwnWebp(i)))

\* ------------------------------------------------------------- C28
\* The items the current run has finished
FinishedNow == w.ok + w.fail

\* C28: the steps applied to the progress bar since it was reset at the start of the
\* current run are at most the items the current run has finished.
C28_ProgressOfCurrentRun == runs >= 1 => progress.stepped <= FinishedNow

\* ------------------------------------------------------------- C29
\* The step of process_all that takes the source of the current row off the disk
SourceRemoved ==
  /\ seo.pc \in {"output", "replace", "clean", "title", "gps", "delete", "update", "error"}
  /\ seo_exists(seo.src)
  /\ fkey(seo.src) \notin DOMAIN fs'
  /\ ~seo.renamed /\ ~seo'.renamed

\* The removal is the guarded one: conversion made a target that is another file
\* than the source, and that file is on the disk, complete, once the source is gone.
SafeRemoval ==
  /\ seo.pc = "delete"
  /\ seo.opts["do_convert"] /\ seo.opts["do_delete"]
  /\ seo.created_new_file
  /\ seo.target # seo.src
  /\ fkey(seo.target) \in DOMAIN fs'
  /\ Complete(fs'[fkey(seo.target)])

\* C29: process_all removes a source file only when conversion created a target that
\* is a different path, exists and is not empty; in rename-only mode, after a failed
\* metadata step, or when the output path is the source path, the only remaining copy
\* of the image is never deleted.
C29_SourceRemovedOnlyWhenSafe == [][SourceRemoved => SafeRemoval]_vars

\* ------------------------------------------------------------- C30
\* process_all has finished with the current row, with the success line or with the
\* error line.
RowHandled == seo.pc \in {"update", "error"} /\ seo'.pc = "loop"

\* The source was not taken away by the deletion of a target that is the same file.
SourceNotItsOwnTarget == ~(seo.created_new_file /\ fkey(seo.target) = fkey(seo.src))

\* C30: once process_all has handled a row, successfully or with an error, the path
\* recorded for the row names a file that exists, also when the error came after the
\* source was renamed or converted.
C30_RowPathIsCurrent ==
  [][RowHandled /\ SourceNotItsOwnTarget
       => fkey(seo'.item_path[seo.i]) \in DOMAIN fs']_vars

====
